---- MODULE Spec2Model ----
(***************************************************************************)
(* Verification model of the numerical kernels of the control library:     *)
(*   src/src/sysid/sr_ukf_parameter_estimation.c  (SR-UKF parameter tick)  *)
(*   src/src/linalg/det.c                         (determinant via LUP)    *)
(*   src/src/optimization/linprog.c               (simplex on a tableau)   *)
(*                                                                         *)
(* Numbers.  The code computes in C float.  The model computes in the     *)
(* same floats: a number is the triple <<s, E, F>> of the sign bit, the    *)
(* biased exponent and the fraction of its IEEE-754 binary32 encoding, and *)
(* FAdd, FSub, FMul, FDiv, FSqrt and the conversion of an integer give the *)
(* correctly rounded result (round to nearest, ties to even) with the      *)
(* subnormals, the signed zeros, the infinities and NaN of the format.     *)
(* Every operation of a C expression rounds to float on its own, as the    *)
(* compiler evaluates float expressions when it does not contract a        *)
(* product and a sum into one fused operation.  All NaNs are one value,    *)
(* NaN: the code never looks at a NaN's sign or payload.                   *)
(*                                                                         *)
(* Two more values stand for floats the program does not determine:        *)
(* Uninit is the content of an array element that was never written, and   *)
(* OutOfDomain is the result of an operation on such a float.  A           *)
(* comparison yields the set of the results it can have: one result for    *)
(* two floats (FALSE when one is NaN), both when an operand is not         *)
(* determined.                                                             *)
(*                                                                         *)
(* A call that stores outside the array it was handed (the loop bounds     *)
(* are 8-bit sizes that wrap for large L) has no defined outcome: the      *)
(* operator yields Undefined and the tick goes to the stage "undefined",   *)
(* of which nothing is asserted.                                           *)
(***************************************************************************)
EXTENDS Integers, Sequences, FiniteSets, TLC

VARIABLES
    arg,      \* the arguments of sr_ukf_parameter_estimation: the scalars
              \* L, alpha, beta, lambda_rls, the function G, and the
              \* contents of the caller's arrays d, what, Re, x, Sw
    beyond,   \* the floats that lie directly behind the end of Sw and of
              \* Pwd and are reached by the loops that run 2L floats, and
              \* which buffer, if any, those floats belong to
    loc,      \* the local arrays Wc, Wm, W, D, dhat, Sd, Pwd, K, U
    pc,       \* the stage the tick is at
    col,      \* the loop counter j of the stage (column index)
    ret,      \* what the call returned to the caller
    trace,    \* history: the operations performed so far, in order
    in0,      \* history: arg and beyond as they were when the tick began
    dt,       \* a call of det(A, row): its stage, arguments, locals, result
    sz,       \* the 8-bit size variables N, M, K a tick computes from L
    lp        \* a call of linprog: its stage, arguments, tableau, counters

ukf  == <<arg, beyond, loc, pc, col, ret, trace, in0>>
vars == <<arg, beyond, loc, pc, col, ret, trace, in0, dt, sz, lp>>

\* ------------------------------------------------------------------------
\* C float: IEEE-754 binary32, round to nearest, ties to even
\* ------------------------------------------------------------------------
\* A float is <<s, E, F>>: the sign bit, the 8-bit biased exponent and the
\* 23-bit fraction of its encoding.
NaN          == <<0, 255, 4194304>>
PInf         == <<0, 255, 0>>      \* +infinity
NInf         == <<1, 255, 0>>      \* -infinity
Zero         == <<0, 0, 0>>        \* 0.0f
NegZero      == <<1, 0, 0>>        \* -0.0f
One          == <<0, 127, 0>>      \* 1.0f
Half         == <<0, 126, 0>>      \* 0.5f
Uninit       == <<2, 0, 0>>        \* content of an array not yet written
OutOfDomain  == <<3, 0, 0>>        \* result of an operation on such a one

\* a float the program does not determine: any float may stand there
Undetermined(a) == a[1] >= 2

IsNaN(a)     == a = NaN

\* an infinity
IsInf(a)     == a = PInf \/ a = NInf

\* a finite number
IsNum(a)     == a[1] < 2 /\ a[2] < 255

\* the float 0.0f or -0.0f
IsZero(a)    == a = Zero \/ a = NegZero

\* the sign bit is set
Negative(a)  == a[1] = 1

\* the bit b as a sign bit, and the exclusive or of two sign bits
SignBit(neg) == IF neg THEN 1 ELSE 0
SignXor(a, b) == IF a[1] = b[1] THEN 0 ELSE 1

\* a finite float is Sig * 2^Exp: the 24-bit significand (the hidden bit is
\* set unless the float is subnormal) and the exponent of its last bit
Sig(a)       == IF a[2] = 0 THEN a[3] ELSE 8388608 + a[3]
Exp(a)       == IF a[2] = 0 THEN -149 ELSE a[2] - 150

\* number of bits of x, 1 <= x < 2^8
Bits8(x) ==
    IF x < 16
    THEN IF x < 4 THEN (IF x < 2 THEN 1 ELSE 2) ELSE (IF x < 8 THEN 3 ELSE 4)
    ELSE IF x < 64 THEN (IF x < 32 THEN 5 ELSE 6) ELSE (IF x < 128 THEN 7 ELSE 8)

\* number of bits of M, 1 <= M < 2^31
BitLen(M) ==
    IF M < 65536
    THEN IF M < 256 THEN Bits8(M) ELSE 8 + Bits8(M \div 256)
    ELSE IF M < 16777216 THEN 16 + Bits8(M \div 65536)
         ELSE 24 + Bits8(M \div 16777216)

\* the float with sign s and value m * 2^e, for 0 <= m <= 2^24 and
\* e >= -149, m having 24 bits unless e = -149; infinity when the exponent
\* is beyond the largest
Packed(s, m, e) ==
    IF m = 0 THEN <<s, 0, 0>>
    ELSE IF m = 16777216
         THEN (IF e + 151 >= 255 THEN <<s, 255, 0>> ELSE <<s, e + 151, 0>>)
    ELSE IF m < 8388608 THEN <<s, 0, m>>
    ELSE IF e + 150 >= 255 THEN <<s, 255, 0>>
    ELSE <<s, e + 150, m - 8388608>>

\* M / 2^sh rounded to the nearest integer, ties to even; st says that the
\* number rounded is M plus a fraction below one unit of M (sh >= 1)
Nearest(M, sh, st) ==
    IF sh >= 32 THEN 0
    ELSE IF sh = 31
         THEN (IF M > 1073741824 \/ (M = 1073741824 /\ st) THEN 1 ELSE 0)
    ELSE (M \div 2 ^ sh)
         + (IF \/ M % 2 ^ sh > 2 ^ (sh - 1)
               \/ /\ M % 2 ^ sh = 2 ^ (sh - 1)
                  /\ (st \/ (M \div 2 ^ sh) % 2 = 1)
            THEN 1 ELSE 0)

\* the float nearest (M + f) * 2^e, dropping sh bits of M (sh > 0) or
\* appending -sh zero bits (then f = 0)
RoundedAt(s, M, e, st, sh) ==
    IF sh <= 0 THEN Packed(s, M * 2 ^ (-sh), e + sh)
    ELSE Packed(s, Nearest(M, sh, st), e + sh)

\* the number of bits to drop from an n-bit M at exponent e: the result
\* keeps 24 bits, fewer when it is subnormal
Dropped(n, e) == IF n - 24 >= -149 - e THEN n - 24 ELSE -149 - e

\* the float of sign s nearest (M + f) * 2^e, where 1 <= M < 2^31,
\* 0 <= f < 1 and f > 0 exactly when st; when st holds M has 26 bits or more
Rounded(s, M, e, st) ==
    CHOOSE v \in {RoundedAt(s, M, e, st, sh) : sh \in {Dropped(BitLen(M), e)}} : TRUE

\* the float of the integer n, |n| < 2^31 (the conversion of an integer
\* operand, as in 3.0f - L)
IntF(n) ==
    IF n = 0 THEN Zero ELSE IF n < 0 THEN Rounded(1, -n, 0, FALSE)
    ELSE Rounded(0, n, 0, FALSE)

\* -a: the sign bit is flipped, that of a zero and of an infinity included
FNeg(a) ==
    IF a[1] >= 2 \/ a = NaN THEN a
    ELSE <<1 - a[1], a[2], a[3]>>

\* fabsf(a): the sign bit is cleared
FAbs(a) ==
    IF a[1] >= 2 \/ a = NaN THEN a
    ELSE <<0, a[2], a[3]>>

\* the result of an operation one operand of which is NaN or undetermined:
\* NaN is absorbing whatever the other operand is
Bad(a, b)    == IF IsNaN(a) \/ IsNaN(b) THEN NaN ELSE OutOfDomain

\* the significand m of a non-zero finite float shifted left to 24 bits,
\* and the exponent that goes with it: <<m', e'>> with m' * 2^e' = m * 2^e
Normal(m, e) ==
    CHOOSE v \in {<<m * 2 ^ k, e - k>> : k \in {24 - BitLen(m)}} : TRUE

\* the product of two 24-bit significands, m1 * m2 = hi * 2^24 + lo, from
\* the 12-bit halves of the factors
WideProduct(m1, m2) ==
    CHOOSE v \in
       { <<hh + (mid \div 4096) + ((mid % 4096) * 4096 + ll) \div 16777216,
           ((mid % 4096) * 4096 + ll) % 16777216>> :
         hh  \in {(m1 \div 4096) * (m2 \div 4096)},
         mid \in {(m1 \div 4096) * (m2 % 4096) + (m1 % 4096) * (m2 \div 4096)},
         ll  \in {(m1 % 4096) * (m2 % 4096)} } : TRUE

\* the product of the finite non-zero floats with sign s and the normal
\* forms p and q: the upper 26 bits of the 48-bit product are rounded, the
\* rest is the sticky bit
ProductOf(s, p, q) ==
    CHOOSE v \in
       { Rounded(s, w[1] * 4 + w[2] \div 4194304, p[2] + q[2] + 22,
                 w[2] % 4194304 # 0) :
         w \in {WideProduct(p[1], q[1])} } : TRUE

\* a * b: the sign bit of the result is the exclusive or of the sign bits;
\* infinity * 0 is NaN
Product(a, b) ==
    IF a[1] >= 2 \/ b[1] >= 2 \/ a = NaN \/ b = NaN THEN Bad(a, b)
    ELSE IF a[2] = 255 \/ b[2] = 255
         THEN (IF IsZero(a) \/ IsZero(b) THEN NaN ELSE <<SignXor(a, b), 255, 0>>)
    ELSE IF IsZero(a) \/ IsZero(b) THEN <<SignXor(a, b), 0, 0>>
    ELSE CHOOSE v \in
            { ProductOf(SignXor(a, b), p, q) :
              p \in {Normal(Sig(a), Exp(a))}, q \in {Normal(Sig(b), Exp(b))} } : TRUE
FMul(x, y)   == CHOOSE v \in {Product(a, b) : a \in {x}, b \in {y}} : TRUE

\* long division: k more digits of 5 bits each of the quotient by m, the
\* quotient so far being qr[1] and the remainder qr[2]
RECURSIVE LongDivision(_, _, _)
LongDivision(qr, m, k) ==
    IF k = 0 THEN qr
    ELSE CHOOSE v \in
            { LongDivision(n, m, k - 1) :
              n \in {<<qr[1] * 32 + (qr[2] * 32) \div m, (qr[2] * 32) % m>>} } : TRUE

\* the quotient of the finite non-zero floats with sign s and the normal
\* forms p and q: 25 bits behind the binary point of p[1] / q[1] are
\* computed, the remainder is the sticky bit
QuotientOf(s, p, q) ==
    CHOOSE v \in
       { Rounded(s, qr[1], p[2] - q[2] - 25, qr[2] # 0) :
         qr \in {LongDivision(<<p[1] \div q[1], p[1] % q[1]>>, q[1], 5)} } : TRUE

\* a / b: the sign bit of the result is the exclusive or of the sign bits;
\* x / 0 is an infinity for x # 0 and NaN for x = 0; infinity / infinity is
\* NaN
Quotient(a, b) ==
    IF a[1] >= 2 \/ b[1] >= 2 \/ a = NaN \/ b = NaN THEN Bad(a, b)
    ELSE IF a[2] = 255
         THEN (IF b[2] = 255 THEN NaN ELSE <<SignXor(a, b), 255, 0>>)
    ELSE IF b[2] = 255 THEN <<SignXor(a, b), 0, 0>>
    ELSE IF IsZero(b)
         THEN (IF IsZero(a) THEN NaN ELSE <<SignXor(a, b), 255, 0>>)
    ELSE IF IsZero(a) THEN <<SignXor(a, b), 0, 0>>
    ELSE CHOOSE v \in
            { QuotientOf(SignXor(a, b), p, q) :
              p \in {Normal(Sig(a), Exp(a))}, q \in {Normal(Sig(b), Exp(b))} } : TRUE
FDiv(x, y)   == CHOOSE v \in {Quotient(a, b) : a \in {x}, b \in {y}} : TRUE

\* the significand m of the operand with the smaller exponent, with three
\* more bits, shifted right by the difference d of the exponents: <<what
\* is left of it, whether a non-zero bit was shifted out>>
Aligned(m, d) ==
    IF d >= 28 THEN <<0, TRUE>>
    ELSE <<(m * 8) \div 2 ^ d, (m * 8) % 2 ^ d # 0>>

\* a + b for finite non-zero a and b with Exp(a) >= Exp(b), x being the
\* significand of a with three more bits and y the aligned significand of b
SumOf(a, b, x, y) ==
    IF a[1] = b[1] THEN Rounded(a[1], x + y[1], Exp(a) - 3, y[2])
    ELSE IF x = y[1] THEN Zero
    ELSE IF x > y[1]
         THEN Rounded(a[1], x - y[1] - (IF y[2] THEN 1 ELSE 0), Exp(a) - 3, y[2])
    ELSE Rounded(b[1], y[1] - x, Exp(a) - 3, FALSE)

SumOrdered(a, b) ==
    CHOOSE v \in
       { SumOf(a, b, x, y) :
         x \in {Sig(a) * 8}, y \in {Aligned(Sig(b), Exp(a) - Exp(b))} } : TRUE

\* a + b: infinity + (-infinity) is NaN; a sum of two zeros is -0 when both
\* are -0 and +0 otherwise; x + (-x) is +0
Sum(a, b) ==
    IF a[1] >= 2 \/ b[1] >= 2 \/ a = NaN \/ b = NaN THEN Bad(a, b)
    ELSE IF a[2] = 255 THEN (IF b[2] = 255 /\ b # a THEN NaN ELSE a)
    ELSE IF b[2] = 255 THEN b
    ELSE IF IsZero(a) THEN (IF IsZero(b) /\ a # b THEN Zero ELSE b)
    ELSE IF IsZero(b) THEN a
    ELSE IF Exp(a) >= Exp(b) THEN SumOrdered(a, b)
    ELSE SumOrdered(b, a)
FAdd(x, y)   == CHOOSE v \in {Sum(a, b) : a \in {x}, b \in {y}} : TRUE

FSub(a, b)   == FAdd(a, FNeg(b))

\* one binary digit of a square root: t is the remainder with the next two
\* bits of the radicand appended; <<root, remainder>> with the digit
RootDigit(rr, t) ==
    IF t >= 4 * rr[1] + 1 THEN <<2 * rr[1] + 1, t - (4 * rr[1] + 1)>>
    ELSE <<2 * rr[1], t>>

\* the square root digit by digit: k more binary digits of the root of
\* m * 4^13, two bits of the radicand at a time (those of m, the highest
\* first, then zeros), the root so far being rr[1], the remainder rr[2]
RECURSIVE RootDigits(_, _, _)
RootDigits(rr, m, k) ==
    IF k = 0 THEN rr
    ELSE CHOOSE v \in
            { RootDigits(n, m, k - 1) :
              n \in {RootDigit(rr, rr[2] * 4
                                   + (IF k > 13 THEN (m \div 4 ^ (k - 14)) % 4 ELSE 0))} } :
            TRUE

\* the root of m * 2^e, m of 24 bits: the exponent is made even, the root
\* of the significand is computed to 25 or 26 bits and rounded, the
\* remainder being the sticky bit
RootOf(m, e) ==
    CHOOSE v \in
       { Rounded(0, rr[1], (IF e % 2 = 0 THEN e ELSE e - 1) \div 2 - 13, rr[2] # 0) :
         rr \in {RootDigits(<<0, 0>>, IF e % 2 = 0 THEN m ELSE 2 * m, 26)} } : TRUE

\* sqrtf: NaN below zero, sqrtf(-0) is -0
Root(a) ==
    IF a[1] >= 2 \/ a = NaN THEN Bad(a, a)
    ELSE IF IsZero(a) THEN a
    ELSE IF a[1] = 1 THEN NaN
    ELSE IF a[2] = 255 THEN a
    ELSE CHOOSE v \in {RootOf(p[1], p[2]) : p \in {Normal(Sig(a), Exp(a))}} : TRUE
FSqrt(x)     == CHOOSE v \in {Root(a) : a \in {x}} : TRUE

\* the place of a float (no NaN) in the order of the floats: 0 and -0 have
\* the same place
Ordinal(a) ==
    IF a[1] = 1 THEN -(a[2] * 8388608 + a[3]) ELSE a[2] * 8388608 + a[3]

\* The results a < b can have in the code: false when either side is NaN,
\* either result when an operand is not determined
Less(a, b) ==
    IF IsNaN(a) \/ IsNaN(b) THEN {FALSE}
    ELSE IF Undetermined(a) \/ Undetermined(b) THEN BOOLEAN
    ELSE {Ordinal(a) < Ordinal(b)}
FLt(x, y)    == CHOOSE v \in {Less(a, b) : a \in {x}, b \in {y}} : TRUE

\* the results of a > b and of a >= b; a >= b is false when either side is
\* NaN and the negation of a < b otherwise
FGt(a, b)    == FLt(b, a)
GreaterEq(a, b) ==
    IF IsNaN(a) \/ IsNaN(b) THEN {FALSE} ELSE {~lt : lt \in Less(a, b)}
FGe(x, y)    == CHOOSE v \in {GreaterEq(a, b) : a \in {x}, b \in {y}} : TRUE

\* the float nearest n / d, as the constant n.0f / d.0f or its decimal form
Rat(n, d)    == FDiv(IntF(n), IntF(d))

\* a and b are the same number (0.0f and -0.0f are) or the same content
SameValue(a, b) == a = b \/ (IsZero(a) /\ IsZero(b))

\* the arrays a and b hold the same numbers
SameValues(a, b) ==
    DOMAIN a = DOMAIN b /\ \A t \in DOMAIN a : SameValue(a[t], b[t])

\* ------------------------------------------------------------------------
\* Arrays: a C array of n floats is a function on 0 .. n-1 (row-major for
\* matrices, addressed by row * width + col as in the code)
\* ------------------------------------------------------------------------
U8(v)        == v % 256

\* the array f with every element evaluated (f itself, as a value)
Arr(f)       == IF f = f THEN f ELSE f

\* sum of term[k] for k = lo .. hi-1, accumulated in increasing k
RECURSIVE SumFrom(_, _, _, _)
SumFrom(acc, lo, hi, term) ==
    IF lo >= hi THEN acc ELSE SumFrom(FAdd(acc, term[lo]), lo + 1, hi, term)

\* the float a[k]; outside the array it is not a written one
read(a, k)   == IF k \in DOMAIN a THEN a[k] ELSE Uninit

\* The loop nest  for (j = lo; j < hi; j++) for (i = 0; i < L; i++)
\* a[i * stride + j] = ...  : the pass <<i, j>> that writes a[t] last (the
\* one with the largest j), or <<-1, -1>> when no pass writes a[t].  With
\* sizes that did not wrap the only candidate is i = t / stride,
\* j = t % stride.
last_write(t, lo, hi, stride, L) ==
    LET i == IF t <= hi - 1 THEN 0 ELSE (t - hi + stride) \div stride
        j == t - i * stride
    IN  IF lo < hi /\ i < L /\ j >= lo THEN <<i, j>> ELSE <<-1, -1>>

\* ------------------------------------------------------------------------
\* Collaborators of <control/linalg.h> (tran, mul, qr, cholupdate, lup,
\* inv): their sources are not part of the files under study; they are
\* modelled from their contracts in spec.md section 6.
\* ------------------------------------------------------------------------
\* tran(A, row, column): in-place transpose of a row x column matrix
tran(A, row, column) ==
    Arr([k \in 0 .. row * column - 1 |-> A[(k % row) * column + (k \div row)]])

\* mul(A, B, C, row_a, column_a, column_b): C = A * B
mul(A, B, row_a, column_a, column_b) ==
    Arr([k \in 0 .. row_a * column_b - 1 |->
        LET i == k \div column_b
            j == k % column_b
            term == [t \in 0 .. column_a - 1 |->
                       FMul(A[i * column_a + t], B[t * column_b + j])]
        IN  SumFrom(Zero, 0, column_a, term)])

\* qr(A, Q, R, row_a, column_a, only_compute_R): the triangular factor R
\* (row_a x column_a, upper triangular, non-negative diagonal) with
\* R'R = A'A, by Gram-Schmidt on the columns of A
RECURSIVE QRColumns(_, _, _, _, _)
QRColumns(V, R, k, row_a, column_a) ==
    IF k >= column_a THEN R
    ELSE LET sq     == [i \in 0 .. row_a - 1 |->
                          FMul(V[i * column_a + k], V[i * column_a + k])]
             nk     == FSqrt(SumFrom(Zero, 0, row_a, sq))
             q      == [i \in 0 .. row_a - 1 |->
                          IF IsZero(nk) THEN Zero ELSE FDiv(V[i * column_a + k], nk)]
             s      == Arr([j \in 0 .. column_a - 1 |->
                          LET pr == [i \in 0 .. row_a - 1 |->
                                       FMul(q[i], V[i * column_a + j])]
                          IN  IF j > k THEN SumFrom(Zero, 0, row_a, pr) ELSE Zero])
             R1     == [t \in DOMAIN R |->
                          IF t = k * column_a + k THEN nk
                          ELSE IF t \div column_a = k /\ t % column_a > k
                               THEN s[t % column_a]
                          ELSE R[t]]
             V1     == [t \in DOMAIN V |->
                          IF t % column_a > k
                          THEN FSub(V[t], FMul(s[t % column_a], q[t \div column_a]))
                          ELSE V[t]]
         IN  QRColumns(Arr(V1), Arr(R1), k + 1, row_a, column_a)

qr(A, row_a, column_a) ==
    QRColumns(A, Arr([t \in 0 .. row_a * column_a - 1 |-> Zero]), 0, row_a, column_a)

\* cholupdate(S, x, row, rank_one_update): in-place rank-one update
\* (S'S + xx') or downdate (S'S - xx') of the triangular factor S
RECURSIVE CholRows(_, _, _, _, _)
CholRows(S, x, k, row, rank_one_update) ==
    IF k >= row THEN S
    ELSE LET skk   == S[k * row + k]
             xk2   == FMul(x[k], x[k])
             r     == FSqrt(FAdd(FMul(skk, skk),
                                 IF rank_one_update THEN xk2 ELSE FNeg(xk2)))
             c     == FDiv(r, skk)
             s     == FDiv(x[k], skk)
             S1    == Arr([t \in DOMAIN S |->
                         IF t = k * row + k THEN r
                         ELSE IF t \div row = k /\ t % row > k
                              THEN LET sx == FMul(s, x[t % row])
                                   IN  FDiv(FAdd(S[t], IF rank_one_update
                                                       THEN sx ELSE FNeg(sx)), c)
                         ELSE S[t]])
             x1    == Arr([j \in DOMAIN x |->
                         IF j > k
                         THEN FSub(FMul(c, x[j]), FMul(s, S1[k * row + j]))
                         ELSE x[j]])
         IN  CholRows(S1, x1, k + 1, row, rank_one_update)

cholupdate(S, x, row, rank_one_update) == CholRows(S, x, 0, row, rank_one_update)

\* inv(A, row): in-place inverse; returns status 0 and leaves A as it was
\* when A is singular (or holds a non-number), status 1 otherwise.
\* Gauss-Jordan elimination on the augmented matrix [A | I].
RECURSIVE InvColumns(_, _, _)
InvColumns(Aug, c, row) ==
    IF c >= row THEN [status |-> 1, Aug |-> Aug]
    ELSE LET w        == 2 * row
             cand     == {r \in c .. row - 1 : ~IsZero(Aug[r * w + c])}
         IN  IF cand = {} THEN [status |-> 0, Aug |-> Aug]
             ELSE LET p      == CHOOSE r \in cand : \A r2 \in cand : r <= r2
                      Swp    == Arr([t \in DOMAIN Aug |->
                                   IF t \div w = c THEN Aug[p * w + (t % w)]
                                   ELSE IF t \div w = p THEN Aug[c * w + (t % w)]
                                   ELSE Aug[t]])
                      pv     == Swp[c * w + c]
                      Scl    == Arr([t \in DOMAIN Aug |->
                                   IF t \div w = c THEN FDiv(Swp[t], pv) ELSE Swp[t]])
                      Elim   == Arr([t \in DOMAIN Aug |->
                                   IF t \div w = c THEN Scl[t]
                                   ELSE FSub(Scl[t], FMul(Scl[(t \div w) * w + c],
                                                          Scl[c * w + (t % w)]))])
                  IN  InvColumns(Elim, c + 1, row)

inv(A, row) ==
    IF \E t \in DOMAIN A : ~IsNum(A[t]) THEN [status |-> 0, A |-> A]
    ELSE LET w   == 2 * row
             Aug == Arr([t \in 0 .. row * w - 1 |->
                       IF t % w < row THEN A[(t \div w) * row + (t % w)]
                       ELSE IF (t % w) - row = t \div w THEN One ELSE Zero])
             res == InvColumns(Aug, 0, row)
         IN  IF res.status = 0 THEN [status |-> 0, A |-> A]
             ELSE [status |-> 1,
                   A |-> Arr([t \in 0 .. row * row - 1 |->
                            res.Aug[(t \div row) * w + row + (t % row)]])]

\* lup(A, LU, P, row): LU decomposition with partial pivoting.  The rows of
\* LU are not moved: P[i] is the row of LU that holds the i-th pivot.
\* Returns status 0 when a pivot is zero (A singular), 1 otherwise.  When
\* a candidate for the pivot is not a determined float, LU is not
\* determined either.
RECURSIVE LupColumns(_, _, _, _)
LupColumns(LU, P, i, row) ==
    IF i >= row THEN [status |-> 1, LU |-> LU, P |-> P]
    ELSE LET mag(jj)  == FAbs(LU[row * P[jj] + i])
             best     == {jj \in i .. row - 1 :
                            \A j2 \in i .. row - 1 : FLt(mag(jj), mag(j2)) = {FALSE}}
             ind_max  == IF best = {} THEN i
                         ELSE CHOOSE jj \in best : \A j2 \in best : jj <= j2
             P1       == Arr([t \in DOMAIN P |->
                            IF t = i THEN P[ind_max]
                            ELSE IF t = ind_max THEN P[i] ELSE P[t]])
             pv       == LU[row * P1[i] + i]
             below    == {P1[jj] : jj \in i + 1 .. row - 1}
             LU1      == Arr([t \in DOMAIN LU |->
                            LET r == t \div row
                                c == t % row
                                m == FDiv(LU[row * r + i], pv)
                            IN  IF r \notin below \/ c < i THEN LU[t]
                                ELSE IF c = i THEN m
                                ELSE FSub(LU[t], FMul(LU[row * P1[i] + c], m))])
         IN  IF best = {}
             THEN [status |-> 1, LU |-> Arr([t \in DOMAIN LU |-> OutOfDomain]), P |-> P]
             ELSE IF IsZero(pv) THEN [status |-> 0, LU |-> LU, P |-> P1]
             ELSE LupColumns(LU1, P1, i + 1, row)

lup(A, row) == LupColumns(A, Arr([i \in 0 .. row - 1 |-> i]), 0, row)

\* ------------------------------------------------------------------------
\* src/src/linalg/det.c
\* ------------------------------------------------------------------------
RECURSIVE ProdFrom(_, _, _, _)
ProdFrom(acc, lo, hi, term) ==
    IF lo >= hi THEN acc ELSE ProdFrom(FMul(acc, term[lo]), lo + 1, hi, term)

\* for (i = 0; i < row; ++i) determinant *= LU[row * P[i] + i]
det_product(LU, P, row) ==
    ProdFrom(One, 0, row, [i \in 0 .. row - 1 |-> LU[row * P[i] + i]])

\* j counts the positions with P[i] != i;
\* if (j && (j - 1) % 2 == 1) determinant = -determinant
det_negates(P, row) ==
    LET jj == Cardinality({i \in 0 .. row - 1 : P[i] # i})
    IN  jj # 0 /\ (jj - 1) % 2 = 1

det(A, row) ==
    LET r == lup(A, row)
        determinant == det_product(r.LU, r.P, row)
    IN  IF r.status = 0 THEN Zero
        ELSE IF det_negates(r.P, row) THEN FNeg(determinant) ELSE determinant

\* ------------------------------------------------------------------------
\* src/src/sysid/sr_ukf_parameter_estimation.c
\* Every function is an operator from the contents of the arrays it is
\* handed to the contents it leaves in the arrays it can write.
\* ------------------------------------------------------------------------
\* kappa = 3.0f - L
kappa_of(L) == FSub(IntF(3), IntF(L))

\* float lambda = alpha * alpha * (L + kappa) - L
lambda_of(alpha, kappa, L) ==
    FSub(FMul(FMul(alpha, alpha), FAdd(IntF(L), kappa)), IntF(L))

\* variant: the centre mean weight divided by L + kappa instead of L + lambda
create_weights_kappa(alpha, beta, kappa, L) ==
    LET N      == U8(2 * L + 1)
        lambda == lambda_of(alpha, kappa, L)
        Wm0    == FDiv(lambda, FAdd(IntF(L), kappa))
        Wc0    == FAdd(FSub(FAdd(Wm0, One), FMul(alpha, alpha)), beta)
        rest   == FDiv(Half, FAdd(IntF(L), lambda))
    IN  [Wc |-> Arr([i \in 0 .. N - 1 |-> IF i = 0 THEN Wc0 ELSE rest]),
         Wm |-> Arr([i \in 0 .. N - 1 |-> IF i = 0 THEN Wm0 ELSE rest])]

\* lines 91-108
create_weights(alpha, beta, kappa, L) ==
    LET N      == U8(2 * L + 1)
        lambda == lambda_of(alpha, kappa, L)
        Wm0    == FDiv(lambda, FAdd(IntF(L), lambda))
        Wc0    == FAdd(FSub(FAdd(Wm0, One), FMul(alpha, alpha)), beta)
        rest   == FDiv(Half, FAdd(IntF(L), lambda))
    IN  [Wc |-> Arr([i \in 0 .. N - 1 |-> IF i = 0 THEN Wc0 ELSE rest]),
         Wm |-> Arr([i \in 0 .. N - 1 |-> IF i = 0 THEN Wm0 ELSE rest])]

\* variant: the loop runs over all L*L floats of the matrix
scale_Sw_whole_matrix(Sw, lambda_rls, L) ==
    Arr([i \in DOMAIN Sw |->
       IF i < L * L THEN FMul(Sw[i], FDiv(One, FSqrt(lambda_rls))) ELSE Sw[i]])

\* Sw here is the memory starting at the caller's Sw: the loop runs over
\* the first M = 2L floats of it whatever the length of the buffer
scale_Sw_with_lambda_rls_factor(Sw, lambda_rls, L) ==
    LET M == U8(2 * L)
    IN  Arr([i \in DOMAIN Sw |->
           IF i < M THEN FMul(Sw[i], FDiv(One, FSqrt(lambda_rls))) ELSE Sw[i]])

\* lines 113-117: the indices i of Sw[i] the loop writes, i = 0 .. M-1
scaler_written(L) ==
    LET M == U8(2 * L)
    IN  0 .. M - 1

\* lines 127-129: float gamma = sqrtf(L + lambda)
gamma_of(alpha, kappa, L) ==
    FSqrt(FAdd(IntF(L), lambda_of(alpha, kappa, L)))

\* variant: the negative sigma points take rows of Sw, not columns
create_sigma_point_matrix_rows(what, Sw, alpha, kappa, L) ==
    LET N      == U8(2 * L + 1)
        K      == U8(L + 1)
        gamma  == gamma_of(alpha, kappa, L)
    IN  Arr([t \in 0 .. L * N - 1 |->
           LET i == t \div N
               j == t % N
           IN  IF j = 0 THEN what[i]
               ELSE IF j < K THEN FAdd(what[i], FMul(gamma, Sw[i * L + j - 1]))
               ELSE FSub(what[i], FMul(gamma, Sw[(j - K) * L + i]))])

\* What C leaves of a call that stores outside the array it was handed:
\* nothing.  The call may end the program, or return with any content in
\* any object.
Undefined == [undefined |-> TRUE]

\* lines 131-143: some pass of the three loop nests stores at an index
\* beyond W[L*N - 1], W being the L*N floats of line 63 (the 8-bit K = L+1
\* exceeds the 8-bit N = 2L+1, which happens for 128 <= L <= 254)
sigma_points_stored_outside(L) ==
    LET N == U8(2 * L + 1)
        K == U8(L + 1)
    IN  \E i \in 0 .. L - 1, j \in {0} \cup (1 .. K - 1) \cup (K .. N - 1) :
           i * N + j >= L * N

\* lines 120-144: W is handed over unwritten; the three loop nests run one
\* after the other and the content of W[t] is what the last pass that
\* writes it stores; a call that stores outside W is undefined
create_sigma_point_matrix(what, Sw, alpha, kappa, L) ==
    LET N      == U8(2 * L + 1)
        K      == U8(L + 1)
        gamma  == gamma_of(alpha, kappa, L)
    IN  IF sigma_points_stored_outside(L) THEN Undefined
        ELSE
        Arr([t \in 0 .. L * N - 1 |->
           LET first    == last_write(t, 0, 1, N, L)
               positive == last_write(t, 1, K, N, L)
               negative == last_write(t, K, N, N, L)
           IN  IF negative[1] >= 0
               THEN FSub(what[negative[1]],
                         FMul(gamma, Sw[negative[1] * L + negative[2] - K]))
               ELSE IF positive[1] >= 0
               THEN FAdd(what[positive[1]],
                         FMul(gamma, Sw[positive[1] * L + positive[2] - 1]))
               ELSE IF first[1] >= 0 THEN what[first[1]]
               ELSE Uninit])

\* The caller's transition function G(dw, x, w): it reads x and w and writes
\* dw.  The model ranges over these sample functions, all total and pure.
G_apply(G, x, w, L) ==
    Arr([i \in 0 .. L - 1 |->
       CASE G = "id"    -> w[i]
         [] G = "zero"  -> Zero
         [] G = "addx"  -> FAdd(x[i], w[i])
         [] G = "shift" -> w[(i + 1) % L]
         [] G = "abs"   -> FAbs(w[i])
         [] G = "sq"    -> IF i = 0 THEN FMul(w[0], w[0]) ELSE Zero])

\* variant: W read with row stride L instead of N
sigma_point_stride_L(W, j, L) ==
    Arr([i \in 0 .. L - 1 |-> W[i * L + j]])

\* compute_transistion_function, body of the loop over j:
\*   w[i] = W[i * N + j]
sigma_point(W, j, L) ==
    LET N == U8(2 * L + 1)
    IN  Arr([i \in 0 .. L - 1 |-> W[i * N + j]])

\*   D[i * N + j] = dw[i]
store_column(D, dw, j, L) ==
    LET N == U8(2 * L + 1)
    IN  Arr([t \in DOMAIN D |-> IF t % N = j THEN dw[t \div N] ELSE D[t]])

\* variant: the last column of D is left out of the weighted sum
multiply_sigma_point_matrix_to_weights_short(D, Wm, L) ==
    LET N == U8(2 * L + 1)
    IN  Arr([i \in 0 .. L - 1 |->
           SumFrom(Zero, 0, N - 1, [j \in 0 .. N - 1 |-> FMul(Wm[j], D[i * N + j])])])

\* lines 171-183
multiply_sigma_point_matrix_to_weights(D, Wm, L) ==
    LET N == U8(2 * L + 1)
    IN  Arr([i \in 0 .. L - 1 |->
           SumFrom(Zero, 0, N, [j \in 0 .. N - 1 |-> FMul(Wm[j], D[i * N + j])])])

\* b[i] = D[i * N] - dhat[i]
centre_residual(D, dhat, L) ==
    LET N == U8(2 * L + 1)
    IN  Arr([i \in 0 .. L - 1 |-> FSub(D[i * N], dhat[i])])

\* variant: an update only when Wc[0] is strictly positive
rank_one_update_strict(Wc) ==
    {IF lt THEN TRUE ELSE FALSE : lt \in FLt(Zero, Wc[0])}

\* bool rank_one_update = Wc[0] < 0.0f ? false : true: the values the flag
\* can take (one, unless Wc[0] was never written)
rank_one_update_of(Wc) ==
    {IF lt THEN FALSE ELSE TRUE : lt \in FLt(Wc[0], Zero)}

\* lines 201-208: some pass of the two loop nests stores at an index beyond
\* AT[L*M - 1] (the 8-bit K = 2L exceeds the 8-bit M = 3L, which happens
\* for 86 <= L <= 127 and for 171 <= L <= 255)
AT_stored_outside(L) ==
    LET M == U8(2 * L + L)
        K == U8(2 * L)
    IN  \E i \in 0 .. L - 1, j \in (0 .. K - 1) \cup (K .. M - 1) :
           i * M + j >= L * M

\* variant: the residuals D - dhat are formed in place, in D
create_state_estimation_error_covariance_matrix_in_place(Wc, D, dhat, Re, L) ==
    LET N       == U8(2 * L + 1)
        M       == U8(2 * L + L)
        K       == U8(2 * L)
        weight1 == FSqrt(FAbs(read(Wc, 1)))
        Dc      == Arr([t \in DOMAIN D |-> FSub(D[t], dhat[t \div N])])
        AT      == Arr([t \in 0 .. L * M - 1 |->
                      LET i == t \div M
                          j == t % M
                      IN  IF j < K
                          THEN FMul(weight1, Dc[i * N + j + 1])
                          ELSE FSqrt(Re[i * L + j - K])])
        R       == qr(tran(AT, L, M), M, L)
        Sd0     == Arr([t \in 0 .. L * L - 1 |-> R[t]])
        b       == Arr([i \in 0 .. L - 1 |-> Dc[i * N]])
    IN  IF AT_stored_outside(L) THEN {Undefined}
        ELSE {[Sd |-> cholupdate(Sd0, b, L, rank_one_update),
               R  |-> Sd0, b |-> b, rank_one_update |-> rank_one_update,
               D  |-> Dc, Re |-> Re] : rank_one_update \in rank_one_update_of(Wc)}

\* lines 185-228: the outcomes of the call, one for each value the flag of
\* line 225 can take.  AT is declared unwritten and filled by two loop
\* nests, the second after the first; R is M x L and Sd takes its first
\* L*L floats.  A call that stores outside AT is undefined.
create_state_estimation_error_covariance_matrix(Wc, D, dhat, Re, L) ==
    LET N       == U8(2 * L + 1)
        M       == U8(2 * L + L)
        K       == U8(2 * L)
        weight1 == FSqrt(FAbs(read(Wc, 1)))
        AT      == Arr([t \in 0 .. L * M - 1 |->
                      LET residual == last_write(t, 0, K, M, L)
                          noise    == last_write(t, K, M, M, L)
                      IN  IF noise[1] >= 0
                          THEN FSqrt(read(Re, noise[1] * L + noise[2] - K))
                          ELSE IF residual[1] >= 0
                          THEN FMul(weight1,
                                    FSub(read(D, residual[1] * N + residual[2] + 1),
                                         dhat[residual[1]]))
                          ELSE Uninit])
        R       == qr(tran(AT, L, M), M, L)
        Sd0     == Arr([t \in 0 .. L * L - 1 |-> read(R, t)])
        b       == centre_residual(D, dhat, L)
    IN  IF AT_stored_outside(L) THEN {Undefined}
        ELSE {[Sd |-> cholupdate(Sd0, b, L, rank_one_update),
               R  |-> Sd0, b |-> b, rank_one_update |-> rank_one_update,
               D  |-> D, Re |-> Re] : rank_one_update \in rank_one_update_of(Wc)}

\* Pwd here is the memory starting at the local Pwd: memset clears the
\* first K = 2L floats of it whatever the length of the buffer
create_state_cross_covariance_matrix(Pwd, Wc, W, D, what, dhat, L) ==
    LET N   == U8(2 * L + 1)
        K   == U8(2 * L)
        Wc_ == Arr([t \in DOMAIN W |-> FSub(W[t], what[t \div N])])
        Dc  == Arr([t \in DOMAIN D |-> FSub(D[t], dhat[t \div N])])
        diagonal_W  == Arr([t \in 0 .. N * N - 1 |->
                          IF t \div N = t % N THEN Wc[t \div N] ELSE Zero])
        DT          == tran(Dc, L, N)
        diagonal_WD == mul(diagonal_W, DT, N, N, L)
        P           == mul(Wc_, diagonal_WD, L, N, L)
    IN  [Pwd |-> Arr([t \in DOMAIN Pwd |->
                    IF t < L * L THEN P[t] ELSE IF t < K THEN Zero ELSE Pwd[t]]),
         W |-> Wc_, D |-> DT]

\* lines 235-238: the indices of Pwd that memset(Pwd, 0, K * sizeof(float))
\* clears, K = 2L; line 260: the indices mul writes, the L x L product
Pwd_cleared(L) ==
    LET K == U8(2 * L)
    IN  0 .. K - 1

Pwd_product(L) == 0 .. L * L - 1

\* update_state_covarariance_matrix_and_state_estimation_vector, lines
\* 269-286: K = Pwd * inv(Sd'Sd); the status of inv is not looked at
kalman_gain(Sd, Pwd, L) ==
    LET SdT   == tran(Sd, L, L)
        SdTSd == mul(SdT, Sd, L, L, L)
        r     == inv(SdTSd, L)
    IN  [K |-> mul(Pwd, r.A, L, L, L), status |-> r.status]

\* lines 288-296: what = what + K*(d - dhat)
update_estimate(what, K, d, dhat, L) ==
    LET ddhat == Arr([i \in 0 .. L - 1 |-> FSub(d[i], dhat[i])])
        Kd    == mul(K, ddhat, L, L, 1)
    IN  [what |-> Arr([i \in 0 .. L - 1 |-> FAdd(what[i], Kd[i])]), d |-> d]

\* variant: Uk is row j of U
Uk_row_of(U, j, L) == Arr([i \in 0 .. L - 1 |-> U[j * L + i]])

\* lines 306-308: Uk[i] = U[i * L + j]
Uk_of(U, j, L) == Arr([i \in 0 .. L - 1 |-> U[i * L + j]])

\* ------------------------------------------------------------------------
\* One tick of sr_ukf_parameter_estimation as a state machine
\* ------------------------------------------------------------------------
MaxL      == 3

Size(a)   == Cardinality(DOMAIN a)

Join(a, b) ==
    Arr([t \in 0 .. Size(a) + Size(b) - 1 |->
       IF t < Size(a) THEN a[t] ELSE b[t - Size(a)]])

Head_(a, n)  == [t \in 0 .. n - 1 |-> a[t]]
Tail_(a, n)  == [t \in 0 .. Size(a) - n - 1 |-> a[t + n]]

\* the arrays each stage's function is handed (lines 57-88): it can read and
\* write those and its own locals, nothing else of the tick
stage_arrays(op) ==
    CASE op = "weights"                      -> {"Wc", "Wm"}
      [] op = "scale"                        -> {"Sw"}
      [] op = "sigma"                        -> {"W", "what", "Sw"}
      [] op = "G"                            -> {"D", "W", "x"}
      [] op = "dhat"                         -> {"dhat", "D", "Wm"}
      [] op \in {"qr", "chol_Sd"}            -> {"Sd", "Wc", "D", "dhat", "Re"}
      [] op = "Pwd"                          -> {"Pwd", "Wc", "W", "D", "what", "dhat"}
      [] op \in {"inv", "what", "chol_Sw"}   -> {"Sw", "what", "dhat", "d", "Sd", "Pwd"}

Ev(op, jj, v, m, f) ==
    [op |-> op, j |-> jj, v |-> v, m |-> m, f |-> f, r |-> stage_arrays(op)]

\* number of floats by which a loop over 2L floats overruns an L x L buffer
Overrun(L) == IF U8(2 * L) > L * L THEN U8(2 * L) - L * L ELSE 0

\* What lies behind a buffer that is overrun is not fixed by the program.
\* Behind the caller's Sw the caller may keep another of its buffers, or
\* something else ("apart"); behind the local Pwd lies padding of the frame
\* ("apart") or the array declared just before it, Sd.
BehindSwChoices(L)  == IF Overrun(L) = 0 THEN {"apart"}
                       ELSE {"apart", "x", "d", "Re", "what"}
BehindPwdChoices(L) == IF Overrun(L) = 0 THEN {"apart"} ELSE {"apart", "Sd"}

\* the floats behind Sw, and the caller's buffers with those floats replaced
BehindSw(a, b) ==
    IF b.behindSw = "apart" THEN b.Sw
    ELSE Arr([t \in 0 .. Overrun(a.L) - 1 |-> a[b.behindSw][t]])

PutBehindSw(a, b, cells) ==
    IF b.behindSw = "apart" THEN a
    ELSE [a EXCEPT ![b.behindSw] =
             Arr([t \in DOMAIN @ |-> IF t \in DOMAIN cells THEN cells[t] ELSE @[t]])]

\* the same for the floats behind Pwd among the locals
BehindPwd(l, b) ==
    IF b.behindPwd = "apart" THEN b.Pwd
    ELSE Arr([t \in 0 .. Size(b.Pwd) - 1 |-> l[b.behindPwd][t]])

PutBehindPwd(l, b, cells) ==
    IF b.behindPwd = "apart" THEN l
    ELSE [l EXCEPT ![b.behindPwd] =
             Arr([t \in DOMAIN @ |-> IF t \in DOMAIN cells THEN cells[t] ELSE @[t]])]

\* sample inputs.  alpha = 0.1f, beta = 2, lambda_rls = 1, L = 1, what = 0,
\* Sw = 1 and the identity G are the scenario of spec.md section 8; with
\* alpha = 0.1f and 0.5f the centre weights are negative, with alpha = 1,
\* beta = 0 and L = 3 lambda and Wc[0] are 0.0f.  what is 0, 1, 2, .. or
\* 0.1f, 0.2f, ..; Sw is diagonal or lower triangular with 1, 1/2, 1/3 in
\* row 0, 1, 2; Re is the unit matrix, or zero together with the zero
\* measurement function (Sd is then the zero matrix, which inv rejects).
Alphas     == {Rat(1, 10), Half, One}
Betas      == {Zero, Half, IntF(2)}
LambdaRls  == {One, Rat(1, 4)}
Gs         == {"id", "zero", "addx", "shift", "abs", "sq"}
SwShapes   == {"diag", "tri"}
ReScales   == {0, 1}
WhatSeeds  == {0, 1}

SwSeed(shape, L) ==
    [t \in 0 .. L * L - 1 |->
       LET i == t \div L
           c == t % L
       IN  IF c = i \/ (shape = "tri" /\ c < i) THEN Rat(1, i + 1) ELSE Zero]

WhatSeed(w0, L) ==
    [i \in 0 .. L - 1 |-> IF w0 = 0 THEN IntF(i) ELSE Rat(i + 1, 10)]

ReSeed(r, L) ==
    [t \in 0 .. L * L - 1 |-> IF t \div L = t % L THEN IntF(r) ELSE Zero]

Init ==
    /\ \E L \in 1 .. MaxL, alpha \in Alphas, beta \in Betas,
          lambda_rls \in LambdaRls, G \in Gs, shape \in SwShapes, r \in ReScales,
          w0 \in WhatSeeds :
          /\ r # 0 \/ G = "zero"
          /\ shape = "diag" \/ L > 1
          /\ arg = [L |-> L, alpha |-> alpha, beta |-> beta,
                    lambda_rls |-> lambda_rls, G |-> G,
                    d    |-> [i \in 0 .. L - 1 |-> IntF(i + 1)],
                    what |-> WhatSeed(w0, L),
                    x    |-> [i \in 0 .. L - 1 |-> IntF(i + 2)],
                    Re   |-> ReSeed(r, L),
                    Sw   |-> SwSeed(shape, L)]
          /\ \E bs \in BehindSwChoices(L), bp \in BehindPwdChoices(L) :
                beyond = [Sw  |-> [t \in 0 .. Overrun(L) - 1 |-> IntF(5)],
                          Pwd |-> [t \in 0 .. Overrun(L) - 1 |-> Uninit],
                          behindSw |-> bs, behindPwd |-> bp]
          /\ loc = [kappa |-> Uninit,
                    Wc   |-> [t \in 0 .. U8(2 * L + 1) - 1 |-> Uninit],
                    Wm   |-> [t \in 0 .. U8(2 * L + 1) - 1 |-> Uninit],
                    W    |-> [t \in 0 .. L * U8(2 * L + 1) - 1 |-> Uninit],
                    D    |-> [t \in 0 .. L * U8(2 * L + 1) - 1 |-> Uninit],
                    dhat |-> [t \in 0 .. L - 1 |-> Uninit],
                    Sd   |-> [t \in 0 .. L * L - 1 |-> Uninit],
                    Pwd  |-> [t \in 0 .. L * L - 1 |-> Uninit],
                    K    |-> [t \in 0 .. L * L - 1 |-> Uninit],
                    U    |-> [t \in 0 .. L * L - 1 |-> Uninit]]
    /\ in0 = [arg |-> arg, beyond |-> beyond]
    /\ dt = [pc |-> "idle"]
    /\ sz = [pc |-> "idle"]
    /\ lp = [pc |-> "idle"]
    /\ pc = "weights"
    /\ col = 0
    /\ ret = "running"
    /\ trace = <<>>

\* lines 50-57
CreateWeights ==
    /\ pc = "weights"
    /\ LET kappa == kappa_of(arg.L)
           w     == create_weights(arg.alpha, arg.beta, kappa, arg.L)
       IN  loc' = [loc EXCEPT !.kappa = kappa, !.Wc = w.Wc, !.Wm = w.Wm]
    /\ trace' = Append(trace, Ev("weights", 0, <<>>, <<>>, FALSE))
    /\ pc' = "scale"
    /\ UNCHANGED <<arg, beyond, col, ret, in0, dt, sz, lp>>

\* line 60
ScaleSw ==
    /\ pc = "scale"
    /\ LET mem  == scale_Sw_with_lambda_rls_factor(
                       Join(arg.Sw, BehindSw(arg, beyond)), arg.lambda_rls, arg.L)
           tail == Tail_(mem, arg.L * arg.L)
       IN  /\ arg' = PutBehindSw([arg EXCEPT !.Sw = Head_(mem, arg.L * arg.L)],
                                 beyond, tail)
           /\ beyond' = IF beyond.behindSw = "apart"
                        THEN [beyond EXCEPT !.Sw = tail] ELSE beyond
    /\ trace' = Append(trace, Ev("scale", 0, <<>>,
                                 [written |-> scaler_written(arg.L)], FALSE))
    /\ pc' = "sigma"
    /\ UNCHANGED <<loc, col, ret, in0, dt, sz, lp>>

\* line 65
CreateSigmaPoints ==
    /\ pc = "sigma"
    /\ IF sigma_points_stored_outside(arg.L)
       THEN /\ pc' = "undefined"
            /\ ret' = "undefined"
            /\ UNCHANGED <<loc, trace, col>>
       ELSE /\ loc' = [loc EXCEPT !.W = create_sigma_point_matrix(arg.what, arg.Sw,
                                                 arg.alpha, loc.kappa, arg.L)]
            /\ trace' = Append(trace, Ev("sigma", 0, <<>>,
                                         [what |-> arg.what, Sw |-> arg.Sw], FALSE))
            /\ pc' = "transition"
            /\ col' = 0
            /\ ret' = ret
    /\ UNCHANGED <<arg, beyond, in0, dt, sz, lp>>

\* line 70, one pass of the loop of compute_transistion_function
Transition ==
    /\ pc = "transition"
    /\ col < U8(2 * arg.L + 1)
    /\ LET w  == sigma_point(loc.W, col, arg.L)
           dw == G_apply(arg.G, arg.x, w, arg.L)
       IN  /\ loc' = [loc EXCEPT !.D = store_column(loc.D, dw, col, arg.L)]
           /\ trace' = Append(trace, Ev("G", col, w, [x |-> arg.x, dw |-> dw], FALSE))
    /\ IF U8(col + 1) < U8(2 * arg.L + 1)
       THEN pc' = pc /\ col' = U8(col + 1)
       ELSE pc' = "dhat" /\ col' = 0
    /\ UNCHANGED <<arg, beyond, ret, in0, dt, sz, lp>>

\* line 75
MultiplyWeights ==
    /\ pc = "dhat"
    /\ loc' = [loc EXCEPT !.dhat =
                 multiply_sigma_point_matrix_to_weights(loc.D, loc.Wm, arg.L)]
    /\ trace' = Append(trace, Ev("dhat", 0, <<>>, <<>>, FALSE))
    /\ pc' = "Sd"
    /\ UNCHANGED <<arg, beyond, col, ret, in0, dt, sz, lp>>

\* line 80
BuildSd ==
    /\ pc = "Sd"
    /\ \E r \in create_state_estimation_error_covariance_matrix(
                    loc.Wc, loc.D, loc.dhat, arg.Re, arg.L) :
          IF AT_stored_outside(arg.L)
          THEN /\ pc' = "undefined"
               /\ ret' = "undefined"
               /\ UNCHANGED <<arg, loc, trace>>
          ELSE /\ loc' = [loc EXCEPT !.Sd = r.Sd, !.D = r.D]
               /\ arg' = [arg EXCEPT !.Re = r.Re]
               /\ trace' = trace \o
                     << Ev("qr", 0, <<>>, r.R, FALSE),
                        Ev("chol_Sd", 0, r.b, [before |-> r.R, after |-> r.Sd],
                           r.rank_one_update) >>
               /\ pc' = "Pwd"
               /\ ret' = ret
    /\ UNCHANGED <<beyond, col, in0, dt, sz, lp>>

\* line 85
BuildPwd ==
    /\ pc = "Pwd"
    /\ LET r    == create_state_cross_covariance_matrix(
                       Join(loc.Pwd, BehindPwd(loc, beyond)), loc.Wc, loc.W, loc.D,
                       arg.what, loc.dhat, arg.L)
           tail == Tail_(r.Pwd, arg.L * arg.L)
       IN  /\ loc' = PutBehindPwd([loc EXCEPT !.Pwd = Head_(r.Pwd, arg.L * arg.L),
                                              !.W = r.W, !.D = r.D],
                                  beyond, tail)
           /\ beyond' = IF beyond.behindPwd = "apart"
                        THEN [beyond EXCEPT !.Pwd = tail] ELSE beyond
    /\ trace' = Append(trace, Ev("Pwd", 0, <<>>,
                                 [written |-> Pwd_cleared(arg.L) \cup Pwd_product(arg.L)],
                                 FALSE))
    /\ pc' = "gain"
    /\ UNCHANGED <<arg, col, ret, in0, dt, sz, lp>>

\* line 88, update_state_covarariance_matrix_and_state_estimation_vector
\* up to U = K*Sd (lines 269-301)
Correct ==
    /\ pc = "gain"
    /\ LET g == kalman_gain(loc.Sd, loc.Pwd, arg.L)
           u == update_estimate(arg.what, g.K, arg.d, loc.dhat, arg.L)
       IN  /\ loc' = [loc EXCEPT !.K = g.K,
                                 !.U = mul(g.K, loc.Sd, arg.L, arg.L, arg.L)]
           /\ arg' = [arg EXCEPT !.what = u.what, !.d = u.d]
           /\ trace' = trace \o
                 << Ev("inv", 0, <<>>, <<>>, g.status = 1),
                    Ev("what", 0, u.what, [before |-> arg.what, K |-> g.K], FALSE) >>
    /\ pc' = "downdate"
    /\ col' = 0
    /\ UNCHANGED <<beyond, ret, in0, dt, sz, lp>>

\* one pass of the loop of lines 306-310; the function returns after the
\* last pass, and it returns nothing (void)
Downdate ==
    /\ pc = "downdate"
    /\ col < arg.L
    /\ LET Uk == Uk_of(loc.U, col, arg.L)
           S  == cholupdate(arg.Sw, Uk, arg.L, FALSE)
       IN  /\ arg' = [arg EXCEPT !.Sw = S]
           /\ trace' = Append(trace,
                 Ev("chol_Sw", col, Uk, [before |-> arg.Sw, after |-> S], FALSE))
    /\ IF U8(col + 1) < arg.L
       THEN pc' = pc /\ col' = U8(col + 1) /\ ret' = ret
       ELSE pc' = "done" /\ col' = 0 /\ ret' = "void"
    /\ UNCHANGED <<beyond, loc, in0, dt, sz, lp>>

Next ==
    \/ CreateWeights
    \/ ScaleSw
    \/ CreateSigmaPoints
    \/ Transition
    \/ MultiplyWeights
    \/ BuildSd
    \/ BuildPwd
    \/ Correct
    \/ Downdate

Spec == Init /\ [][Next]_vars

\* ------------------------------------------------------------------------
\* A call of det(A, row) as a state machine
\* ------------------------------------------------------------------------
MaxRow == 4

Perms(n) ==
    {p \in [0 .. n - 1 -> 0 .. n - 1] : \A a, b \in 0 .. n - 1 : p[a] = p[b] => a = b}

\* row i holds value i + 1 (times scale) in column sigma[i], fill to the
\* right of it, zero to the left; with singular set, row 0 is cleared
DetSeed(sigma, scale, fill, singular, row) ==
    [t \in 0 .. row * row - 1 |->
       LET i == t \div row
           c == t % row
       IN  IF singular /\ i = 0 THEN Zero
           ELSE IF c = sigma[i] THEN IntF(scale * (i + 1))
           ELSE IF c > sigma[i] THEN IntF(fill)
           ELSE Zero]

InitDet ==
    /\ \E row \in 1 .. MaxRow, scale \in {1, 2}, fill \in {0, 1}, singular \in BOOLEAN :
          \E sigma \in Perms(row) :
             dt = [pc |-> "call", row |-> row,
                   A |-> DetSeed(sigma, scale, fill, singular, row),
                   LU |-> <<>>, P |-> <<>>, status |-> 0, ret |-> Uninit]
    /\ sz = [pc |-> "idle"]
    /\ lp = [pc |-> "idle"]
    /\ arg = [L |-> 0]
    /\ beyond = <<>>
    /\ loc = <<>>
    /\ in0 = <<>>
    /\ pc = "idle"
    /\ col = 0
    /\ ret = "idle"
    /\ trace = <<>>

\* det.c line 23
DetLup ==
    /\ dt.pc = "call"
    /\ LET r == lup(dt.A, dt.row)
       IN  dt' = [dt EXCEPT !.pc = "lup", !.LU = r.LU, !.P = r.P, !.status = r.status]
    /\ UNCHANGED <<ukf, sz, lp>>

\* det.c lines 25-40
DetReturn ==
    /\ dt.pc = "lup"
    /\ dt' = [dt EXCEPT !.pc = "done", !.ret = det(dt.A, dt.row)]
    /\ UNCHANGED <<ukf, sz, lp>>

NextDet ==
    \/ DetLup
    \/ DetReturn

SpecDet == InitDet /\ [][NextDet]_vars

\* ------------------------------------------------------------------------
\* The dimension-derived sizes of a tick, for every L a uint8_t can carry
\* ------------------------------------------------------------------------
MaxUint8 == 255

\* uint8_t N = 2 * L + 1; uint8_t M = 2 * L + L; uint8_t K = 2 * L: the
\* right-hand sides are computed in int and converted to 8 bits
size_N(L) == U8(2 * L + 1)
size_M(L) == U8(2 * L + L)
size_K(L) == U8(2 * L)

InitSizes ==
    /\ \E L \in 1 .. MaxUint8 : sz = [pc |-> "entry", L |-> L, N |-> 0, M |-> 0, K |-> 0]
    /\ dt = [pc |-> "idle"]
    /\ lp = [pc |-> "idle"]
    /\ arg = [L |-> 0]
    /\ beyond = <<>>
    /\ loc = <<>>
    /\ in0 = <<>>
    /\ pc = "idle"
    /\ col = 0
    /\ ret = "idle"
    /\ trace = <<>>

\* line 50, sr_ukf_parameter_estimation
SizesTick ==
    /\ sz.pc = "entry"
    /\ sz' = [sz EXCEPT !.pc = "Sd", !.N = size_N(sz.L)]
    /\ UNCHANGED <<ukf, dt, lp>>

\* line 65, on the way from line 50 to line 189: for 128 <= L <= 254
\* create_sigma_point_matrix stores outside W (lines 131-143), and from
\* there on the tick is undefined: it may end the program or go on with any
\* content in any object, L and the sizes included, so that in this stage
\* the fields of sz say nothing about the program
SizesUndefined ==
    /\ sz.pc = "Sd"
    /\ sigma_points_stored_outside(sz.L)
    /\ sz' = [sz EXCEPT !.pc = "undefined"]
    /\ UNCHANGED <<ukf, dt, lp>>

\* lines 189-191, create_state_estimation_error_covariance_matrix, reached
\* when the sigma points were stored inside W
SizesSd ==
    /\ sz.pc = "Sd"
    /\ ~sigma_points_stored_outside(sz.L)
    /\ sz' = [sz EXCEPT !.pc = "done", !.N = size_N(sz.L), !.M = size_M(sz.L),
                                      !.K = size_K(sz.L)]
    /\ UNCHANGED <<ukf, dt, lp>>

NextSizes ==
    \/ SizesTick
    \/ SizesUndefined
    \/ SizesSd

SpecSizes == InitSizes /\ [][NextSizes]_vars

\* ------------------------------------------------------------------------
\* linprog: the simplex method on a tableau (src/optimization/linprog.c)
\* ------------------------------------------------------------------------
\* FLT_EPSILON of <float.h>, 2^-23
FLT_EPSILON  == <<0, 104, 0>>

\* if (value1 == 0) value1 = FLT_EPSILON
nonzero(v)   == IF Undetermined(v) THEN OutOfDomain
                ELSE IF IsZero(v) THEN FLT_EPSILON ELSE v

\* the width of a tableau row, (column_a + row_a + 2), computed in int
tableau_width(row_a, column_a) == column_a + row_a + 2

\* opti, lines 69-72: memset(x, 0, n * sizeof(float)), n being opti's
\* column_a for a maximisation and opti's row_a for a minimisation
clear_solution(x, n) ==
    Arr([i \in DOMAIN x |-> IF i < n THEN Zero ELSE x[i]])

\* opti, lines 73-102: the zeroed tableau loaded with A, the slack
\* variables, b, the negated objective and the objective's slack variable
load_tableau(c, A, b, row_a, column_a) ==
    LET W == tableau_width(row_a, column_a)
    IN  Arr([t \in 0 .. (row_a + 1) * W - 1 |->
              LET r == t \div W
                  k == t % W
              IN  IF r < row_a
                  THEN IF k = W - 1 THEN b[r]
                       ELSE IF k = column_a + r THEN One
                       ELSE IF k < column_a THEN A[r * column_a + k]
                       ELSE Zero
                  ELSE IF k = W - 2 THEN One
                       ELSE IF k < column_a THEN FNeg(c[k])
                       ELSE Zero])

\* opti, lines 142-154: rows i .. row_a-1 compared against the smallest
\* ratio found so far; the results are the pairs <<smallest, pivotRowIndex>>
\* the loop can end with
RECURSIVE pivot_row_from(_, _, _, _, _, _, _)
pivot_row_from(tableau, i, smallest, pivotRowIndex, pivotColumIndex, row_a, W) ==
    IF i >= row_a THEN {<<smallest, pivotRowIndex>>}
    ELSE LET value1 == nonzero(tableau[i * W + pivotColumIndex])
             value2 == tableau[i * W + (W - 1)]
             value3 == FDiv(value2, value1)
             taken  == {(gt /\ lt) \/ neg : gt \in FGt(value3, Zero),
                                           lt \in FLt(value3, smallest),
                                           neg \in FLt(smallest, Zero)}
         IN  UNION {IF t
                    THEN pivot_row_from(tableau, i + 1, value3, i, pivotColumIndex,
                                        row_a, W)
                    ELSE pivot_row_from(tableau, i + 1, smallest, pivotRowIndex,
                                        pivotColumIndex, row_a, W) : t \in taken}

\* opti, lines 134-154: the rows the pivot can be in, starting from row 0
pivot_row(tableau, pivotColumIndex, row_a, W) ==
    LET value1 == nonzero(tableau[0 * W + pivotColumIndex])
        value2 == tableau[0 * W + (W - 1)]
    IN  {p[2] : p \in pivot_row_from(tableau, 1, FDiv(value2, value1), 0,
                                     pivotColumIndex, row_a, W)}

\* opti, lines 171-185: every row but the pivot row has the pivot row,
\* times its own entry in the pivot column, subtracted from it
eliminate(tableau, pivotRowIndex, pivotColumIndex, row_a, W) ==
    Arr([t \in DOMAIN tableau |->
          LET i == t \div W
              j == t % W
          IN  IF i = pivotRowIndex THEN tableau[t]
              ELSE LET value1 == tableau[i * W + pivotColumIndex]
                       value2 == tableau[pivotRowIndex * W + j]
                       value3 == tableau[i * W + j]
                   IN  FAdd(FMul(FNeg(value1), value2), value3)])

\* opti, lines 196-207: column i summed from row j downwards; x[i] takes
\* the last column of every row at which the running sum and the entry
\* are both 1 within FLT_EPSILON; the results are the values x[i] can end
\* with
RECURSIVE solution_from(_, _, _, _, _, _, _)
solution_from(tableau, i, j, value1, xi, row_a, W) ==
    IF j >= row_a + 1 THEN {xi}
    ELSE LET sum    == FAdd(value1, tableau[j * W + i])
             value2 == tableau[j * W + i]
             taken  == {below /\ above /\ one :
                           below \in FLt(sum, FAdd(One, FLT_EPSILON)),
                           above \in FGt(sum, FSub(One, FLT_EPSILON)),
                           one   \in FGt(value2, FSub(One, FLT_EPSILON))}
         IN  UNION {IF t
                    THEN solution_from(tableau, i, j + 1, sum,
                                       tableau[j * W + (W - 1)], row_a, W)
                    ELSE solution_from(tableau, i, j + 1, sum, xi, row_a, W) :
                    t \in taken}

\* opti, lines 192-215: the solution read off the final tableau into x;
\* the results are the contents x can end with
solution(x, tableau, row_a, column_a, max_or_min) ==
    LET W    == tableau_width(row_a, column_a)
        ends == Arr([i \in DOMAIN x |->
                   IF max_or_min = 0
                   THEN IF i < column_a
                        THEN solution_from(tableau, i, 0, Zero, x[i], row_a, W)
                        ELSE {x[i]}
                   ELSE IF i < row_a THEN {tableau[row_a * W + i + column_a]}
                        ELSE {x[i]}])
    IN  {s \in [DOMAIN x -> UNION {ends[i] : i \in DOMAIN x}] :
            \A i \in DOMAIN x : s[i] \in ends[i]}

\* ------------------------------------------------------------------------
\* One call of linprog as a state machine. The loops whose counter is a
\* uint8_t compared with an int bound (lines 121 and 162) advance one
\* iteration per step; the counter is kept modulo 256.
\* ------------------------------------------------------------------------
MaxLpRow == 2
MaxLimit == 3

\* the entry k of the sample matrix s of a given width: a matrix with a
\* unit diagonal and zeros elsewhere, or one of two matrices of ones and twos
sample_A(s, k, width) ==
    IF s = 0 THEN (IF k \div width = k % width THEN One ELSE Zero)
    ELSE IntF(1 + ((k + s) % 2))

\* sample problems: A of row_a x column_a, b and c of small integers, c
\* with and without a positive coefficient; the matrix with zeros is used
\* for maximisation, where no zero becomes a pivot
LpSmall ==
    { [row_a |-> d[1], column_a |-> d[2], max_or_min |-> mm, iteration_limit |-> lim,
       A |-> [k \in 0 .. d[1] * d[2] - 1 |->
                 sample_A(IF mm = 1 /\ s = 0 THEN 1 ELSE s, k, d[2])],
       b |-> [k \in 0 .. d[1] - 1 |-> IntF(bs + k)],
       c |-> [k \in 0 .. d[2] - 1 |-> IntF(cs - k)]] :
         d \in {e \in (1 .. MaxLpRow) \X (1 .. MaxLpRow) : e[1] >= e[2]},
         mm \in {0, 1}, lim \in 0 .. MaxLimit,
         s \in 0 .. 2, bs \in 1 .. 2, cs \in 0 .. 2 }

\* minimisation problems with one unknown and so many constraints that the
\* tableau of the dual is 256 or 257 floats wide; every coefficient is 1
LpWide ==
    { [row_a |-> m, column_a |-> 1, max_or_min |-> 1, iteration_limit |-> lim,
       A |-> [k \in 0 .. m - 1 |-> One],
       b |-> [k \in 0 .. m - 1 |-> One],
       c |-> [k \in 0 .. 0 |-> One]] :
         m \in {MaxUint8 - 2, MaxUint8 - 1}, lim \in {0, 1} }

InitLinprog ==
    /\ \E in \in LpSmall \cup LpWide :
          lp = [pc |-> "call", c |-> in.c, A |-> in.A, b |-> in.b,
                row_a |-> in.row_a, column_a |-> in.column_a,
                max_or_min |-> in.max_or_min,
                iteration_limit |-> in.iteration_limit,
                tableau |-> <<>>, count |-> 0, entry |-> Zero,
                x |-> [k \in 0 .. in.column_a - 1 |-> Uninit],
                pivotColumIndex |-> 0, pivotRowIndex |-> 0, pivot |-> Zero,
                i |-> 0]
    /\ dt = [pc |-> "idle"]
    /\ sz = [pc |-> "idle"]
    /\ arg = [L |-> 0]
    /\ beyond = <<>>
    /\ loc = <<>>
    /\ in0 = <<>>
    /\ pc = "idle"
    /\ col = 0
    /\ ret = "idle"
    /\ trace = <<>>

\* linprog, lines 51-63, and opti, lines 65-114: for a minimisation A is
\* transposed in place and opti receives b for c, c for b and the
\* dimensions exchanged; opti loads the tableau and sets count to 0
LpCall ==
    /\ lp.pc = "call"
    /\ lp' = IF lp.max_or_min = 0
             THEN [lp EXCEPT !.pc = "loop", !.count = 0,
                             !.x = clear_solution(lp.x, lp.column_a),
                             !.tableau = load_tableau(lp.c, lp.A, lp.b,
                                                      lp.row_a, lp.column_a)]
             ELSE LET At == tran(lp.A, lp.row_a, lp.column_a)
                  IN  [lp EXCEPT !.pc = "loop", !.count = 0,
                                 !.x = clear_solution(lp.x, lp.column_a),
                                 !.A = At, !.c = lp.b, !.b = lp.c,
                                 !.row_a = lp.column_a, !.column_a = lp.row_a,
                                 !.tableau = load_tableau(lp.b, At, lp.c,
                                                          lp.column_a, lp.row_a)]
    /\ UNCHANGED <<ukf, dt, sz>>

\* opti, lines 116-121: the head of the do-while body and the
\* initialisation of the scan of the bottom row
LpScanBegin ==
    /\ lp.pc = "loop"
    /\ lp' = [lp EXCEPT !.pc = "scan", !.pivotColumIndex = 0, !.entry = Zero,
                        !.i = 0]
    /\ UNCHANGED <<ukf, dt, sz>>

\* opti, lines 121-128: one iteration of
\* for (uint8_t i = 0; i < (column_a + row_a + 2) - 1; i++)
LpScan ==
    /\ lp.pc = "scan"
    /\ lp.i < tableau_width(lp.row_a, lp.column_a) - 1
    /\ LET W      == tableau_width(lp.row_a, lp.column_a)
           value1 == lp.tableau[lp.row_a * W + lp.i]
       IN  \E lt \in FLt(value1, lp.entry) :
              lp' = IF lt
                    THEN [lp EXCEPT !.entry = value1, !.pivotColumIndex = lp.i,
                                    !.i = U8(lp.i + 1)]
                    ELSE [lp EXCEPT !.i = U8(lp.i + 1)]
    /\ UNCHANGED <<ukf, dt, sz>>

\* opti, lines 130-161: the scan is over; leave the loop when no entry is
\* negative or the iteration limit is reached, otherwise choose the pivot
\* row and read the pivot
LpPivot ==
    /\ lp.pc = "scan"
    /\ ~(lp.i < tableau_width(lp.row_a, lp.column_a) - 1)
    /\ LET W == tableau_width(lp.row_a, lp.column_a)
       IN  \E ge \in FGe(lp.entry, Zero) :
              IF ge \/ lp.count >= lp.iteration_limit
              THEN lp' = [lp EXCEPT !.pc = "solution"]
              ELSE \E prow \in pivot_row(lp.tableau, lp.pivotColumIndex, lp.row_a, W) :
                      lp' = [lp EXCEPT
                                !.pc = "scale", !.pivotRowIndex = prow,
                                !.pivot = nonzero(lp.tableau[prow * W + lp.pivotColumIndex]),
                                !.i = 0]
    /\ UNCHANGED <<ukf, dt, sz>>

\* opti, lines 162-168: one iteration of
\* for (uint8_t i = 0; i < (column_a + row_a + 2); i++)
LpScale ==
    /\ lp.pc = "scale"
    /\ lp.i < tableau_width(lp.row_a, lp.column_a)
    /\ LET W      == tableau_width(lp.row_a, lp.column_a)
           t      == lp.pivotRowIndex * W + lp.i
           value1 == lp.tableau[t]
       IN  lp' = [lp EXCEPT !.tableau[t] = FDiv(FMul(value1, One), lp.pivot),
                            !.i = U8(lp.i + 1)]
    /\ UNCHANGED <<ukf, dt, sz>>

\* opti, lines 171-189: the other rows are reduced, count is incremented
\* and the loop condition entry < 0 is tested
LpEliminate ==
    /\ lp.pc = "scale"
    /\ ~(lp.i < tableau_width(lp.row_a, lp.column_a))
    /\ \E lt \in FLt(lp.entry, Zero) :
          lp' = [lp EXCEPT !.tableau = eliminate(lp.tableau, lp.pivotRowIndex,
                                                 lp.pivotColumIndex, lp.row_a,
                                                 tableau_width(lp.row_a, lp.column_a)),
                           !.count = lp.count + 1,
                           !.pc = IF lt THEN "loop" ELSE "solution"]
    /\ UNCHANGED <<ukf, dt, sz>>

\* opti, lines 192-215, and the return of linprog
LpSolution ==
    /\ lp.pc = "solution"
    /\ \E x \in solution(lp.x, lp.tableau, lp.row_a, lp.column_a, lp.max_or_min) :
          lp' = [lp EXCEPT !.pc = "done", !.x = x]
    /\ UNCHANGED <<ukf, dt, sz>>

NextLinprog ==
    \/ LpCall
    \/ LpScanBegin
    \/ LpScan
    \/ LpPivot
    \/ LpScale
    \/ LpEliminate
    \/ LpSolution

\* the call runs on one thread that is never suspended for ever: whenever
\* a step of it is possible, a step is eventually taken
SpecLinprog == InitLinprog /\ [][NextLinprog]_vars /\ WF_vars(NextLinprog)

\* every float the tick has computed so far is determined: no operation
\* had an unwritten float for an operand
AllValues ==
    UNION { {arg.d[t] : t \in DOMAIN arg.d}, {arg.what[t] : t \in DOMAIN arg.what},
            {arg.Re[t] : t \in DOMAIN arg.Re}, {arg.Sw[t] : t \in DOMAIN arg.Sw},
            {loc.Wc[t] : t \in DOMAIN loc.Wc}, {loc.Wm[t] : t \in DOMAIN loc.Wm},
            {loc.W[t] : t \in DOMAIN loc.W}, {loc.D[t] : t \in DOMAIN loc.D},
            {loc.dhat[t] : t \in DOMAIN loc.dhat}, {loc.Sd[t] : t \in DOMAIN loc.Sd},
            {loc.Pwd[t] : t \in DOMAIN loc.Pwd}, {loc.K[t] : t \in DOMAIN loc.K},
            {loc.U[t] : t \in DOMAIN loc.U} }

InDomain == OutOfDomain \notin AllValues

\* ------------------------------------------------------------------------
\* Properties of one tick
\* ------------------------------------------------------------------------
\* the stages of the tick in program order
StageNo ==
    CASE pc = "weights"    -> 0
      [] pc = "scale"      -> 1
      [] pc = "sigma"      -> 2
      [] pc = "transition" -> 3
      [] pc = "dhat"       -> 4
      [] pc = "Sd"         -> 5
      [] pc = "Pwd"        -> 6
      [] pc = "gain"       -> 7
      [] pc = "downdate"   -> 8
      [] pc = "done"       -> 9
      [] OTHER             -> -1

Idx(op)   == {k \in 1 .. Len(trace) : trace[k].op = op}
First(op) == CHOOSE k \in Idx(op) : \A k2 \in Idx(op) : k <= k2
HasNaN(a) == \E t \in DOMAIN a : ~IsNum(a[t])

\* C1: when a collaborator fails (inv reports a singular matrix), the tick
\* returns a result that says the update failed, and what and Sw hold the
\* values they had when the tick began.
C1_FailurePropagated ==
    (pc = "done" /\ \E k \in Idx("inv") : ~trace[k].f)
        => /\ ret = "update_failed"
           /\ SameValues(arg.what, in0.arg.what)
           /\ SameValues(arg.Sw, in0.arg.Sw)

\* C2: the scaler multiplies the first 2L floats of the memory at Sw by
\* 1/sqrt(lambda_rls), each once, and leaves the floats Sw[k] with
\* 2L <= k < L*L as they were; it runs once per tick.
C2_ScalerPrefix ==
    LET L    == arg.L
        f    == FDiv(One, FSqrt(arg.lambda_rls))
        mem0 == Join(in0.arg.Sw, BehindSw(in0.arg, in0.beyond))
        mem  == Join(arg.Sw, BehindSw(arg, beyond))
    IN  /\ StageNo \in 0 .. 1 => Idx("scale") = {} /\ mem = mem0
        /\ StageNo >= 2 => Cardinality(Idx("scale")) = 1
        /\ StageNo \in 2 .. 7 =>
              \A k \in DOMAIN mem :
                 /\ k < 2 * L  => mem[k] = FMul(mem0[k], f)
                 /\ k >= 2 * L => mem[k] = mem0[k]

C2_Witness ==
    /\ pc = "sigma"
    /\ arg.L = 3
    /\ arg.lambda_rls = Rat(1, 4)
    /\ arg.Sw[0] = FMul(in0.arg.Sw[0], IntF(2))
    /\ arg.Sw[7] # Zero /\ arg.Sw[7] = in0.arg.Sw[7]
    /\ arg.Sw[8] # Zero /\ arg.Sw[8] = in0.arg.Sw[8]

\* C3: after the QR step there is exactly one rank-one operation on Sd, with
\* the vector b[i] = D[i,0] - dhat[i]; it is an update exactly when
\* Wc[0] >= 0 (zero included) and a downdate exactly when Wc[0] < 0.
C3_OneRankOneOnSd ==
    LET L  == arg.L
        N  == 2 * L + 1
        cs == Idx("chol_Sd")
    IN  /\ StageNo <= 5 => cs = {}
        /\ StageNo >= 6 =>
              /\ Cardinality(cs) = 1
              /\ LET k == First("chol_Sd")
                     e == trace[k]
                     nonneg == FGe(loc.Wc[0], Zero) = {TRUE}
                     neg    == FLt(loc.Wc[0], Zero) = {TRUE}
                 IN  /\ k > 1 /\ trace[k - 1].op = "qr"
                     /\ e.m.before = trace[k - 1].m
                     /\ nonneg \/ neg
                     /\ e.f <=> nonneg
                     /\ ~e.f <=> neg
                     /\ pc = "Pwd" =>
                           /\ e.v = [i \in 0 .. L - 1 |->
                                        FSub(loc.D[i * N], loc.dhat[i])]
                           /\ loc.Sd = e.m.after

C3_Witness ==
    /\ pc = "Pwd"
    /\ loc.Wc[0] = Zero
    /\ trace[Len(trace)].op = "chol_Sd"
    /\ trace[Len(trace)].f
    /\ \E i \in 0 .. arg.L - 1 : trace[Len(trace)].v[i] # Zero
    /\ ~HasNaN(loc.Sd)

\* C4: after what has received K*(d - dhat), Sw gets exactly L rank-one
\* downdates; the j-th uses column j of U = K*Sd, they run in the order
\* j = 0 .. L-1, and each works on the Sw left by the one before.
C4_DowndatesOfSw ==
    LET L  == arg.L
        cw == Idx("chol_Sw")
        n  == IF pc = "done" THEN L ELSE col
    IN  /\ StageNo <= 7 => cw = {}
        /\ StageNo >= 8 =>
              /\ Cardinality(Idx("what")) = 1
              /\ trace[First("what")].v = arg.what
              /\ loc.U = mul(loc.K, loc.Sd, L, L, L)
              /\ Cardinality(cw) = n
              /\ cw = {First("what") + t : t \in 1 .. n}
              /\ \A t \in 1 .. n :
                    LET e == trace[First("what") + t]
                    IN  /\ e.j = t - 1
                        /\ ~e.f
                        /\ e.v = [i \in 0 .. L - 1 |-> loc.U[i * L + (t - 1)]]
                        /\ e.m.after = cholupdate(e.m.before, e.v, L, FALSE)
                        /\ t > 1 => e.m.before = trace[First("what") + t - 1].m.after
                        /\ t = n => arg.Sw = e.m.after

C4_Witness ==
    /\ pc = "done"
    /\ arg.L = 3
    /\ loc.U[1] # loc.U[3]
    /\ ~HasNaN(loc.U)
    /\ ~HasNaN(arg.Sw)
    /\ arg.Sw # trace[First("chol_Sw")].m.before

\* C5: G is called exactly 2L+1 times, in column order; the j-th call gets
\* the caller's x and w = column j of W, and column j of D is what that call
\* put out; all calls come after the scaler and the sigma-point generator
\* and before the corrector touches what or Sw.
C5_TransitionCalls ==
    LET L  == arg.L
        N  == 2 * L + 1
        gs == Idx("G")
        n  == IF pc = "transition" THEN col ELSE IF StageNo >= 4 THEN N ELSE 0
    IN  /\ Cardinality(gs) = n
        /\ gs # {} =>
              /\ Cardinality(Idx("scale")) = 1 /\ Cardinality(Idx("sigma")) = 1
              /\ First("scale") < First("sigma")
              /\ gs = {First("sigma") + t : t \in 1 .. n}
              /\ \A k \in Idx("what") \cup Idx("chol_Sw") : \A g \in gs : g < k
              /\ \A t \in 1 .. n :
                    LET e == trace[First("sigma") + t]
                    IN  /\ e.j = t - 1
                        /\ e.m.x = arg.x
                        /\ e.m.dw = G_apply(arg.G, arg.x, e.v, L)
                        /\ StageNo \in 3 .. 6 =>
                              \A i \in 0 .. L - 1 :
                                 /\ e.v[i] = loc.W[i * N + (t - 1)]
                        /\ StageNo \in 3 .. 6 =>
                              \A i \in 0 .. L - 1 :
                                 /\ loc.D[i * N + (t - 1)] = e.m.dw[i]
        /\ StageNo <= 7 => Idx("what") = {} /\ Idx("chol_Sw") = {}
        /\ StageNo \in 3 .. 7 =>
              /\ arg.what = trace[First("sigma")].m.what
              /\ arg.Sw = trace[First("sigma")].m.Sw

C5_Witness ==
    /\ pc = "dhat"
    /\ arg.L = 3
    /\ arg.G = "addx"
    /\ Cardinality(Idx("G")) = 7
    /\ \E a, b \in Idx("G") : trace[a].m.dw # trace[b].m.dw

\* C6: the tick never writes x, d or Re (the transition functions used here
\* do not write x): after the tick they hold what they held before it.
C6_InputsKept ==
    pc = "done" =>
        /\ SameValues(arg.x, in0.arg.x)
        /\ SameValues(arg.d, in0.arg.d)
        /\ SameValues(arg.Re, in0.arg.Re)

\* |a - b| <= bound, all three evaluated in float
Within(a, b, bound) == FGe(bound, FAbs(FSub(a, b))) = {TRUE}

\* 2.0f
Two == IntF(2)

\* column 0 of W is what, column jj is the float what + gamma*Sw[:,jj-1] and
\* column jj+L the float what - gamma*Sw[:,jj-1], with the same Sw
SigmaColumns ==
    LET L     == arg.L
        N     == 2 * L + 1
        gamma == gamma_of(arg.alpha, kappa_of(L), L)
    IN  \A i \in 0 .. L - 1 :
           /\ loc.W[i * N] = arg.what[i]
           /\ \A jj \in 1 .. L :
                 /\ loc.W[i * N + jj]
                       = FAdd(arg.what[i], FMul(gamma, arg.Sw[i * L + jj - 1]))
                 /\ loc.W[i * N + jj + L]
                       = FSub(arg.what[i], FMul(gamma, arg.Sw[i * L + jj - 1]))

\* C7 as stated: the sigma-point matrix is symmetric about what:
\* W[i,j] + W[i,j+L] == 2*what[i] for j = 1 .. L, column 0 is what, column j
\* is what + gamma*Sw[:,j-1] and column j+L is what - gamma*Sw[:,j-1].
C7_SigmaSymmetric ==
    StageNo \in 3 .. 6 =>
        LET L == arg.L
            N == 2 * L + 1
        IN  /\ SigmaColumns
            /\ \A i \in 0 .. L - 1 : \A jj \in 1 .. L :
                  SameValue(FAdd(loc.W[i * N + jj], loc.W[i * N + jj + L]),
                            FMul(Two, arg.what[i]))

\* C7: column 0 of the sigma-point matrix is what, column j is the float
\* what + gamma*Sw[:,j-1] and column j+L the float what - gamma*Sw[:,j-1]
\* for the same Sw, and the pair is symmetric about what up to the rounding
\* of these two floats: wherever the two sigma points and 2*what[i] are
\* finite,
\*   |(W[i,j] + W[i,j+L]) - 2*what[i]|
\*       <= 2*FLT_EPSILON*(|W[i,j]| + |W[i,j+L]|),
\* both sides evaluated in float.
C7_SigmaSymmetricUpToRounding ==
    StageNo \in 3 .. 6 =>
        LET L == arg.L
            N == 2 * L + 1
        IN  /\ SigmaColumns
            /\ \A i \in 0 .. L - 1 : \A jj \in 1 .. L :
                  LET plus  == loc.W[i * N + jj]
                      minus == loc.W[i * N + jj + L]
                      twice == FMul(Two, arg.what[i])
                  IN  (IsNum(plus) /\ IsNum(minus) /\ IsNum(twice)) =>
                         Within(FAdd(plus, minus), twice,
                                FMul(FMul(Two, FLT_EPSILON),
                                     FAdd(FAbs(plus), FAbs(minus))))

\* a pair of sigma points of a triangular Sw whose float sum is not 2*what
C7_Witness ==
    /\ pc = "transition"
    /\ arg.L = 3
    /\ arg.Sw[3] # Zero
    /\ loc.W[1] # loc.W[4]
    /\ IsNum(loc.W[8]) /\ IsNum(loc.W[11])
    /\ FAdd(loc.W[8], loc.W[11]) # FMul(Two, arg.what[1])

\* the float sum Wm[0] + Wm[1] + ... + Wm[2L], added in index order
weight_sum(Wm, L) == SumFrom(Zero, 0, 2 * L + 1, Wm)

\* Wc[j] = Wm[j] = 0.5f/(L + lambda) for j >= 1, and L + lambda is not 0
WeightsOffCentre ==
    LET L      == arg.L
        N      == 2 * L + 1
        lambda == lambda_of(arg.alpha, kappa_of(L), L)
    IN  /\ ~IsZero(FAdd(IntF(L), lambda))
        /\ \A jj \in 1 .. N - 1 :
              /\ loc.Wm[jj] = FDiv(Half, FAdd(IntF(L), lambda))
              /\ loc.Wc[jj] = loc.Wm[jj]

\* C8 as stated: the mean weights add up to 1 (sum of Wm[j] == 1), and for
\* j >= 1 Wc[j] = Wm[j] = 0.5/(L + lambda), with kappa = 3 - L and
\* L + lambda # 0.
C8_Weights ==
    StageNo >= 1 =>
        /\ WeightsOffCentre
        /\ SameValue(weight_sum(loc.Wm, arg.L), One)

\* C8: for j >= 1 Wc[j] = Wm[j] = 0.5f/(L + lambda) exactly, with
\* kappa = 3 - L and L + lambda # 0, and the mean weights add up to 1 up to
\* rounding: when the weights are finite, their float sum s in index order
\* has  |s - 1| <= 2*(L+1)*FLT_EPSILON*(1 + |Wm[0]|),  evaluated in float.
C8_WeightsUpToRounding ==
    StageNo >= 1 =>
        LET L == arg.L
        IN  /\ WeightsOffCentre
            /\ (\A jj \in 0 .. 2 * L : IsNum(loc.Wm[jj])) =>
                  Within(weight_sum(loc.Wm, L), One,
                         FMul(FMul(IntF(2 * (L + 1)), FLT_EPSILON),
                              FAdd(One, FAbs(loc.Wm[0]))))

\* weights of alpha = 0.1 whose float sum is not 1
C8_Witness ==
    /\ pc = "scale"
    /\ arg.L = 3
    /\ loc.Wm[0] # loc.Wc[0]
    /\ FLt(loc.Wm[0], Zero) = {TRUE}
    /\ IsNum(weight_sum(loc.Wm, 3))
    /\ weight_sum(loc.Wm, 3) # One

\* the j-th call of G in the history
Gev(jj) == trace[First("sigma") + 1 + jj]

\* what as the sigma-point generator read it: the estimate before the
\* corrector of this tick updates it
prior_what ==
    IF Idx("what") # {} THEN trace[First("what")].m.before ELSE arg.what

\* the product a*b neither overflowed nor underflowed
ProductInRange(a, b) ==
    /\ IsNum(a) /\ IsNum(b) /\ IsNum(FMul(a, b))
    /\ FMul(a, b)[2] = 0 => IsZero(a) \/ IsZero(b)

\* C9 as stated: with G the identity, dhat equals what after one tick.
C9_DhatIsWhatAfterTick ==
    (pc = "done" /\ arg.G = "id") => SameValues(loc.dhat, arg.what)

\* C9: with G the identity, dhat equals, up to rounding, what as it stands
\* before the corrector updates it in the same tick (the estimate the sigma
\* points were built around), for every L, Sw and lambda_rls: when no
\* product Wm[j]*W[i,j] overflows or underflows,
\*   |dhat[i] - what[i]|
\*       <= 2*(L+1)*FLT_EPSILON*(|what[i]| + sum over j of |Wm[j]*W[i,j]|),
\* evaluated in float with the sum taken in index order.  The corrector then
\* moves what away from dhat by K*(d - dhat).
C9_DhatIsPriorWhat ==
    (arg.G = "id" /\ StageNo >= 5) =>
        LET L == arg.L
            N == 2 * L + 1
        IN  \A i \in 0 .. L - 1 :
               LET w == [j \in 0 .. N - 1 |-> Gev(j).v[i]]
               IN  (\A j \in 0 .. N - 1 : ProductInRange(loc.Wm[j], w[j])) =>
                      Within(loc.dhat[i], prior_what[i],
                             FMul(FMul(IntF(2 * (L + 1)), FLT_EPSILON),
                                  FAdd(FAbs(prior_what[i]),
                                       SumFrom(Zero, 0, N,
                                          [j \in 0 .. N - 1 |->
                                              FAbs(FMul(loc.Wm[j], w[j]))]))))

\* a finished tick with the identity G whose dhat is not the prior what
\* exactly, and whose what has been moved away from it
C9_Witness ==
    /\ pc = "done"
    /\ arg.G = "id"
    /\ arg.L = 3
    /\ arg.lambda_rls = Rat(1, 4)
    /\ ~HasNaN(loc.dhat)
    /\ ~SameValues(loc.dhat, in0.arg.what)
    /\ ~SameValues(arg.what, loc.dhat)
    /\ ~HasNaN(arg.what)

\* C11: for every L >= 1, L = 1 included, every index written during a tick
\* lies inside the buffer it addresses: the scaler writes only indices below
\* L*L of Sw, and the builder of Pwd writes (clears) only indices below L*L
\* of Pwd.
C11_WritesInBounds ==
    \A k \in Idx("scale") \cup Idx("Pwd") :
       \A i \in trace[k].m.written : i < arg.L * arg.L

\* C12: the in-place centring of W and D (and the in-place transpose of D)
\* by the builder of Pwd is seen by no other stage: the builder of Sd reads
\* D (columns 1..2L for AT, column 0 for b) before the centring, the
\* centring subtracts the not yet corrected what and dhat, and no stage
\* after the builder of Pwd reads W or D.
C12_CentringNotObserved ==
    LET L == arg.L
        N == 2 * L + 1
        D0 == [t \in 0 .. L * N - 1 |-> Gev(t % N).m.dw[t \div N]]
        W0 == [t \in 0 .. L * N - 1 |-> Gev(t % N).v[t \div N]]
    IN  /\ \A k \in Idx("qr") \cup Idx("chol_Sd") : \A p \in Idx("Pwd") : k < p
        /\ \A p \in Idx("Pwd") : \A k \in p + 1 .. Len(trace) :
              "W" \notin trace[k].r /\ "D" \notin trace[k].r
        /\ pc \in {"Sd", "Pwd"} => loc.D = D0 /\ loc.W = W0
        /\ pc = "Pwd" =>
              /\ \E sd \in create_state_estimation_error_covariance_matrix(
                                loc.Wc, D0, loc.dhat, arg.Re, L) :
                    /\ trace[First("qr")].m = sd.R
                    /\ trace[First("chol_Sd")].f = sd.rank_one_update
              /\ trace[First("chol_Sd")].v =
                    [i \in 0 .. L - 1 |-> FSub(D0[i * N], loc.dhat[i])]
        /\ pc = "gain" =>
              /\ Idx("what") = {}
              /\ arg.what = trace[First("sigma")].m.what
              /\ loc.W = [t \in 0 .. L * N - 1 |-> FSub(W0[t], arg.what[t \div N])]
              /\ loc.D = [t \in 0 .. N * L - 1 |->
                            FSub(D0[(t % L) * N + (t \div L)], loc.dhat[t % L])]

C12_Witness ==
    /\ pc = "done"
    /\ arg.L = 3
    /\ arg.G = "addx"
    /\ Cardinality(Idx("chol_Sw")) = 3
    /\ loc.W[7] # Gev(0).v[1]
    /\ loc.D[1] # Gev(0).m.dw[1]
    /\ ~HasNaN(loc.D)

\* ------------------------------------------------------------------------
\* Properties of det
\* ------------------------------------------------------------------------
\* +1 for an even permutation, -1 for an odd one, by counting inversions
PermIsOdd(P, row) ==
    Cardinality({pr \in (0 .. row - 1) \X (0 .. row - 1) :
                    pr[1] < pr[2] /\ P[pr[1]] > P[pr[2]]}) % 2 = 1

\* C10: when lup succeeds det returns the product of the pivots LU[P[i], i]
\* times the sign of the permutation P, whatever P is; when lup reports a
\* singular matrix det returns 0.
C10_DetSignedPivotProduct ==
    dt.pc = "done" =>
        LET prod == ProdFrom(One, 0, dt.row,
                             [i \in 0 .. dt.row - 1 |-> dt.LU[dt.row * dt.P[i] + i]])
        IN  IF dt.status = 0 THEN dt.ret = Zero
            ELSE SameValue(dt.ret, IF PermIsOdd(dt.P, dt.row) THEN FNeg(prod) ELSE prod)

\* ------------------------------------------------------------------------
\* Properties of the sizes
\* ------------------------------------------------------------------------
\* C13: for every L from 1 to 255 the sizes held in 8-bit variables equal
\* their mathematical values, N = 2L+1, K = 2L, M = 3L, with no wrap-around
\* modulo 256.
C13_SizesExact ==
    /\ sz.pc = "Sd" => sz.N = 2 * sz.L + 1
    /\ sz.pc = "done" =>
          /\ sz.N = 2 * sz.L + 1
          /\ sz.K = 2 * sz.L
          /\ sz.M = 3 * sz.L

\* ------------------------------------------------------------------------
\* Properties of linprog
\* ------------------------------------------------------------------------
\* the bottom row of the tableau has a negative entry before its last column
BottomRowNegative ==
    LET W == tableau_width(lp.row_a, lp.column_a)
    IN  \E k \in 0 .. W - 2 : FLt(lp.tableau[lp.row_a * W + k], Zero) = {TRUE}

\* the pivot loop of opti has been left
LoopLeft == lp.pc \in {"solution", "done"}

\* the pivot steps: none is begun once count has reached iteration_limit
\* (so none at all when iteration_limit is 0), none is begun when the
\* bottom row has no negative entry, and the loop is left only for one of
\* these two reasons
PivotStepsBounded ==
    lp.pc # "idle" =>
        /\ lp.count <= lp.iteration_limit
        /\ lp.pc = "scale" => lp.count < lp.iteration_limit /\ BottomRowNegative
        /\ lp.iteration_limit = 0 => lp.count = 0 /\ lp.pc # "scale"
        /\ LoopLeft => ~BottomRowNegative \/ lp.count = lp.iteration_limit

\* C14: the pivot loop of linprog always terminates: for every input and
\* every iteration_limit the loop is eventually left, after at most
\* iteration_limit pivot steps, earlier as soon as the bottom row of the
\* tableau has no negative entry in the columns before the last, and with
\* no pivot step at all when iteration_limit is 0.
C14_PivotLoopTerminates ==
    /\ <>LoopLeft
    /\ []PivotStepsBounded

====
